---- MODULE Spec2Model ----
(***************************************************************************)
(* Model of src/server.js (first copy of the program, lines 1-275): the    *)
(* room registry ROOMS, the socket handlers createRoom / joinRoom /        *)
(* startGame / submitAnswers / disconnect, and the turn engine startTurn / *)
(* nextTurn with its setTimeout callback.                                  *)
(*                                                                         *)
(* Strings are modelled as sequences of one-character strings so that      *)
(* trim / toLowerCase / the regular expressions of looksLegitWord are      *)
(* computed, not assumed.  Times are in milliseconds.                      *)
(***************************************************************************)
EXTENDS Integers, Sequences, FiniteSets, Bags, TLC

\* ------------------------------------------------------------------ bounds
\* Cap on the number of turns started in a run (calls of startTurn that draw a
\* letter): a step that would start one more is not taken.
MaxTurns == 6
\* Cap on the length of a room's players list (joinRoom is not taken past it).
MaxPlayers == 2
\* Cap on the number of createRoom events of a run.
MaxCreates == 2

\* ------------------------------------------------------- program constants
RoundsPerPlayer == 5
TurnDuration == 30000
TimeoutDelay == 30500
MinWordLen == 3
MaxWordLen == 12
MaxRareCount == 2

\* ------------------------------------------------------------- environment
\* Connections (socket ids), room codes makeRoomCode can return, names.
Sockets == {"s1", "s2"}
\* with one more connection, for the runs that start from a room of three
AllSockets == Sockets \cup {"s3"}
Codes == {"K1"}
Names == {"Asha"}

Upper == <<"A","B","C","D","E","F","G","H","I","J","K","L","M",
           "N","O","P","Q","R","S","T","U","V","W","X","Y","Z">>
Lower == <<"a","b","c","d","e","f","g","h","i","j","k","l","m",
           "n","o","p","q","r","s","t","u","v","w","x","y","z">>

\* const LETTERS = "ABC...Z".split(""), cut to its first two letters: a game
\* of ten turns outlasts the alphabet, so that the branch of randomLetter for an
\* exhausted alphabet is taken.
LETTERS == <<"A", "B">>

Range(s) == {s[i] : i \in 1..Len(s)}
LetterSet == Range(LETTERS)

\* null for the letter field, and for timerEndTs
NullLetter == "null"
NullTs == -1

\* --------------------------------------------------------- string helpers
\* String.prototype.toLowerCase, character by character
LowerChar(ch) ==
  IF \E i \in 1..Len(Upper) : Upper[i] = ch
    THEN Lower[CHOOSE i \in 1..Len(Upper) : Upper[i] = ch]
    ELSE ch

ToLower(w) == [i \in 1..Len(w) |-> LowerChar(w[i])]

\* String.prototype.trim
RECURSIVE TrimLeft(_)
TrimLeft(w) == IF w # <<>> /\ Head(w) = " " THEN TrimLeft(Tail(w)) ELSE w

RECURSIVE TrimRight(_)
TrimRight(w) ==
  IF w # <<>> /\ w[Len(w)] = " " THEN TrimRight(SubSeq(w, 1, Len(w) - 1)) ELSE w

Trim(w) == TrimRight(TrimLeft(w))

\* String.prototype.includes for a sequence of characters
Includes(t, x) ==
  \E i \in 1..(Len(t) - Len(x) + 1) : SubSeq(t, i, i + Len(x) - 1) = x

Vowels == {"a","e","i","o","u"}
Consonants == Range(Lower) \ Vowels
RareLetters == {"q","x","z"}
RareGrams == { <<"q","j">>, <<"x","v">>, <<"z","x">>, <<"j","j">>, <<"k","k">>,
               <<"f","q">>, <<"j","h">>, <<"k","j","h">>, <<"x","q">>, <<"p","z">> }

\* /(u)\1{2,}/ for a unit of n characters: the unit three times in a row
RepeatsUnit(t, n) ==
  \E i \in 1..(Len(t) - 3 * n + 1) :
     /\ SubSeq(t, i, i + n - 1) = SubSeq(t, i + n, i + 2 * n - 1)
     /\ SubSeq(t, i, i + n - 1) = SubSeq(t, i + 2 * n, i + 3 * n - 1)

\* /[bcdfghjklmnpqrstvwxyz]{n,}/
ConsonantRun(t, n) ==
  \E i \in 1..(Len(t) - n + 1) : \A j \in i..(i + n - 1) : t[j] \in Consonants

looksLegitWord(w) ==
  IF w = <<>> THEN FALSE
  ELSE LET t == ToLower(Trim(w)) IN
    /\ t # <<>> /\ \A i \in 1..Len(t) : t[i] \in Range(Lower)
    /\ ~(Len(t) < MinWordLen \/ Len(t) > MaxWordLen)
    /\ \E i \in 1..Len(t) : t[i] \in Vowels
    /\ ~RepeatsUnit(t, 1)
    /\ ~ConsonantRun(t, 3)
    /\ ~\E x \in RareGrams : Includes(t, x)
    /\ ~(Cardinality({i \in 1..Len(t) : t[i] \in RareLetters}) > MaxRareCount)
    /\ ~(RepeatsUnit(t, 2) \/ RepeatsUnit(t, 3))

validateCategory(word, letter) ==
  IF word = <<>> THEN FALSE
  ELSE LET t == ToLower(Trim(word)) IN
    IF t = <<>> \/ t[1] # LowerChar(letter) THEN FALSE
    ELSE looksLegitWord(t)

\* ------------------------------------------------------------------ state
VARIABLES
  ROOMS,         \* const ROOMS = {}: room code -> room object
  connected,     \* sockets whose "disconnect" has not fired yet
  orphanTimers,  \* pending setTimeout callbacks whose room object left ROOMS
  nCreated,      \* number of createRoom events so far
  nTurns,        \* number of turns started so far
  crashed,       \* an exception left a handler uncaught
  lastEvent      \* the last event that changed anything, and what it emitted

vars == <<ROOMS, connected, orphanTimers, nCreated, nTurns, crashed, lastEvent>>

Undefined == "undefined"

\* Date.now(): every stored time (timerEndTs, the due time of a timeout) is kept
\* as the time left from the current instant, and the passing of time lowers it.
now == 0

\* room.timerHandle: null, or the Timeout object setTimeout returned.
\* active = scheduled, neither fired nor cleared (due is then the delay left).
NoTimer == [serial |-> 0, due |-> 0, active |-> FALSE]

Exists(code) == code \in DOMAIN ROOMS

\* emit records: socket.emit (to = socket id) and io.to(code).emit (to = code);
\* msg is the message text in parts (<<>> when the payload is a snapshot)
Emit(to, ev, msg) == [to |-> to, ev |-> ev, msg |-> msg]

\* The record of an event: accepted = it took its effect (it was not rejected or
\* ignored); valid = the validator's verdict on submitted answers; late =
\* Date.now() was past timerEndTs; host = the leaver was a room's host; stale,
\* serial = a timeout callback found nothing to do, and its captured serial;
\* out = the emits of the handler, in order.
Event(type, sock, code) ==
  [type |-> type, sock |-> sock, code |-> code,
   accepted |-> FALSE, valid |-> FALSE, late |-> FALSE, host |-> FALSE,
   stale |-> FALSE, serial |-> 0, out |-> <<>>]

\* What a handler does when it runs in the current state: the registry after
\* it, its emits, whether it took effect, whether it threw.
Result(rooms, out, done) == [rooms |-> rooms, out |-> out, done |-> done, threw |-> FALSE]

\* an early return: nothing but the emits
Rejected(out) == Result(ROOMS, out, FALSE)

\* -------------------------------------------------------------- helpers
\* randomLetter without the filter on used
randomLetterAny(used) == LetterSet

\* function randomLetter(used): the set of letters Math.random can select.
\* room.usedLetters is an array the program only ever reads with includes();
\* it is modelled by the set of its elements.
randomLetter(used) ==
  LET avail == {l \in LetterSet : l \notin used} IN
  IF avail # {} THEN avail ELSE LetterSet

\* index in room.players of currentPlayer(room), 0 when find() returns undefined
\* (order[turnIndex % 0] is order[NaN], undefined)
currentPlayerIdx(room) ==
  IF Len(room.order) = 0 THEN 0
  ELSE LET id == room.order[(room.turnIndex % Len(room.order)) + 1]
           hits == {i \in 1..Len(room.players) : room.players[i].id = id}
       IN IF hits = {} THEN 0 ELSE CHOOSE i \in hits : \A j \in hits : i <= j

\* currentPlayer(room)?.id
currentPlayer(room) ==
  IF currentPlayerIdx(room) = 0 THEN Undefined
  ELSE room.players[currentPlayerIdx(room)].id

\* players.findIndex(p => p.id === id), 0 for -1
findIndex(players, id) ==
  LET hits == {i \in 1..Len(players) : players[i].id = id} IN
  IF hits = {} THEN 0 ELSE CHOOSE i \in hits : \A j \in hits : i <= j

\* players.splice(idx, 1)
splice(players, idx) ==
  SubSeq(players, 1, idx - 1) \o SubSeq(players, idx + 1, Len(players))

\* order.filter(id => id !== sock)
RECURSIVE filterOut(_, _)
filterOut(order, sock) ==
  IF order = <<>> THEN <<>>
  ELSE IF Head(order) = sock THEN filterOut(Tail(order), sock)
       ELSE <<Head(order)>> \o filterOut(Tail(order), sock)

\* clearTimeout left out
clearTimerNot(room) == room

\* clearTimeout(room.timerHandle) when it is set: the Timeout stays in the
\* field, unscheduled
clearTimer(room) == [room EXCEPT !.timerHandle.active = FALSE, !.timerHandle.due = 0]

\* ------------------------------------------------------------ turn engine
\* startTurn(code) on an existing room; letter is the outcome of randomLetter,
\* t the value of Date.now().  Yields the room and the emits.
gameOver(room) == room.turnIndex >= Len(room.players) * room.roundsPerPlayer

startTurn(room, code, letter, t) ==
  IF gameOver(room)
    THEN [room |-> [room EXCEPT !.state = "ended"],
          out  |-> << Emit(code, "roomUpdate", <<>>), Emit(code, "toast", <<"Game Over!">>) >>]
    ELSE [room |-> [clearTimer(room) EXCEPT
                      !.turnSerial = room.turnSerial + 1,
                      !.currentLetter = letter,
                      !.usedLetters = room.usedLetters \cup {letter},
                      !.timerEndTs = t + TurnDuration,
                      !.timerHandle = [serial |-> room.turnSerial + 1,
                                       due |-> t + TimeoutDelay,
                                       active |-> TRUE]],
          out  |-> << Emit(code, "turnStarted", <<>>) >>]

\* nextTurn(code) on an existing room
nextTurn(room, code, letter, t) ==
  startTurn([clearTimer(room) EXCEPT !.turnIndex = room.turnIndex + 1], code, letter, t)

\* The letters startTurn can draw when called on room (one dummy when it ends
\* the game instead), and whether the call stays within the cap on turns.
drawsOf(room) ==
  IF gameOver(room) THEN {NullLetter} ELSE randomLetter(room.usedLetters)

withinCap(room) == gameOver(room) \/ nTurns < MaxTurns

\* 1 when startTurn called on room starts a turn, 0 when it ends the game
starts(room) == IF gameOver(room) THEN 0 ELSE 1

advanced(room) == [room EXCEPT !.turnIndex = room.turnIndex + 1]

\* ----------------------------------------------------------------- inputs
\* Sample submissions (words as character sequences).
AllFive(w) == [name |-> w, place |-> w, animal |-> w, thing |-> w, movie |-> w]

AnswerInputs ==
  { AllFive(<<"a","n","t">>),
    AllFive(<<" ","B","a","t"," ">>),
    [AllFive(<<"a","n","t">>) EXCEPT !.movie = <<"a","r","r","r">>] }

\* ------------------------------------------------------------------- Init
Init ==
  /\ ROOMS = [c \in {} |-> 0]
  /\ connected = Sockets
  /\ orphanTimers = EmptyBag
  /\ nCreated = 0
  /\ nTurns = 0
  /\ crashed = FALSE
  /\ lastEvent = Event("init", Undefined, Undefined)

\* The pending timeout of a room object that leaves ROOMS stays scheduled.
orphanOf(code, room) ==
  IF room.timerHandle.active
    THEN SetToBag({[code |-> code, serial |-> room.timerHandle.serial,
                    due |-> room.timerHandle.due]})
    ELSE EmptyBag

\* ROOMS[code] = room
Put(code, room) == [c \in DOMAIN ROOMS \cup {code} |-> IF c = code THEN room ELSE ROOMS[c]]

\* the record of an event that ran to result r
Took(ev, r) == [ev EXCEPT !.accepted = r.done, !.out = r.out]

\* A socket event whose handler ran to result r: a handler that returned early
\* leaves the state as it was; one that threw takes the process down.
Apply(ev, r) ==
  /\ ROOMS' = r.rooms
  /\ crashed' = r.threw
  /\ lastEvent' = IF r.done \/ r.threw THEN Took(ev, r) ELSE lastEvent

\* ------------------------------------------------------------- createRoom
newRoom(sock, name) ==
  [hostId |-> sock,
   players |-> << [id |-> sock, name |-> name, score |-> 0] >>,
   order |-> << sock >>,
   state |-> "lobby",
   turnIndex |-> 0,
   roundsPerPlayer |-> RoundsPerPlayer,
   currentLetter |-> NullLetter,
   usedLetters |-> {},
   timerEndTs |-> NullTs,
   timerHandle |-> NoTimer,
   turnSerial |-> 0]

\* the handler of "createRoom"; code is what makeRoomCode returned
onCreateRoom(sock, code, name) ==
  Result(Put(code, newRoom(sock, name)),
         << Emit(sock, "roomJoined", <<>>), Emit(code, "roomUpdate", <<>>) >>, TRUE)

createRoom(sock, code, name) ==
  /\ ~crashed /\ sock \in connected
  /\ nCreated < MaxCreates
  /\ nCreated' = nCreated + 1
  /\ Apply(Event("createRoom", sock, code), onCreateRoom(sock, code, name))
  /\ orphanTimers' = IF Exists(code) THEN orphanTimers (+) orphanOf(code, ROOMS[code])
                                     ELSE orphanTimers
  /\ UNCHANGED <<connected, nTurns>>

\* --------------------------------------------------------------- joinRoom
\* the handler of "joinRoom" without the test of line 141
onJoinRoomAnyState(sock, code, name) ==
  IF ~Exists(code) THEN
    Rejected(<< Emit(sock, "errorMsg", <<"Room not found.">>) >>)
  ELSE
    Result([ROOMS EXCEPT
              ![code].players = Append(@, [id |-> sock, name |-> name, score |-> 0]),
              ![code].order = Append(@, sock)],
           << Emit(sock, "roomJoined", <<>>), Emit(code, "roomUpdate", <<>>) >>, TRUE)

\* the handler of "joinRoom"
onJoinRoom(sock, code, name) ==
  IF ~Exists(code) THEN
    Rejected(<< Emit(sock, "errorMsg", <<"Room not found.">>) >>)
  ELSE IF ROOMS[code].state # "lobby" THEN
    Rejected(<< Emit(sock, "errorMsg", <<"Game already started.">>) >>)
  ELSE
    Result([ROOMS EXCEPT
              ![code].players = Append(@, [id |-> sock, name |-> name, score |-> 0]),
              ![code].order = Append(@, sock)],
           << Emit(sock, "roomJoined", <<>>), Emit(code, "roomUpdate", <<>>) >>, TRUE)

joinRoom(sock, code, name) ==
  /\ ~crashed /\ sock \in connected
  /\ Exists(code) => Len(ROOMS[code].players) < MaxPlayers
  /\ Apply(Event("joinRoom", sock, code), onJoinRoom(sock, code, name))
  /\ UNCHANGED <<connected, orphanTimers, nCreated, nTurns>>

\* -------------------------------------------------------------- startGame
\* lines 158-160
reset(room) == [room EXCEPT !.state = "playing", !.turnIndex = 0, !.usedLetters = {}]

\* the handler of "startGame"; letter is what randomLetter returns in startTurn
onStartGame(sock, code, letter) ==
  IF ~Exists(code) THEN
    Rejected(<<>>)
  ELSE IF ROOMS[code].hostId # sock THEN
    Rejected(<< Emit(sock, "errorMsg", <<"Only host can start.">>) >>)
  ELSE IF Len(ROOMS[code].players) < 2 THEN
    Rejected(<< Emit(sock, "errorMsg", <<"Need at least 2 players.">>) >>)
  ELSE
    LET st == startTurn(reset(ROOMS[code]), code, letter, now) IN
    Result([ROOMS EXCEPT ![code] = st.room],
           << Emit(code, "roomUpdate", <<>>) >> \o st.out, TRUE)

\* the guards of lines 154-156 pass
starting(sock, code) ==
  Exists(code) /\ ROOMS[code].hostId = sock /\ Len(ROOMS[code].players) >= 2

startGame(sock, code) ==
  /\ ~crashed /\ sock \in connected
  /\ IF starting(sock, code)
       THEN /\ withinCap(reset(ROOMS[code]))
            /\ nTurns' = nTurns + starts(reset(ROOMS[code]))
            /\ \E letter \in drawsOf(reset(ROOMS[code])) :
                 Apply(Event("startGame", sock, code), onStartGame(sock, code, letter))
       ELSE /\ UNCHANGED nTurns
            /\ Apply(Event("startGame", sock, code), onStartGame(sock, code, NullLetter))
  /\ UNCHANGED <<connected, orphanTimers, nCreated>>

\* ---------------------------------------------------------- submitAnswers
\* const ok = validateCategory(answers.name, L) && ... (lines 177-182)
okFor(answers, L) ==
  /\ validateCategory(answers.name, L)
  /\ validateCategory(answers.place, L)
  /\ validateCategory(answers.animal, L)
  /\ validateCategory(answers.thing, L)
  /\ validateCategory(answers.movie, L)

\* okFor tabulated over the inputs of the model
okTable == [a \in AnswerInputs, L \in LetterSet |-> okFor(a, L)]

\* the validation result ignored
allValidAlways(answers, L) == TRUE

allValid(answers, L) == okTable[answers, L]

\* the guard without the test of line 172
mayAnswerAnyone(sock, code) == Exists(code) /\ ROOMS[code].state = "playing"

\* the guard of lines 169-172: the room is there, playing, and sock is cp.id
mayAnswer(sock, code) ==
  /\ Exists(code)
  /\ ROOMS[code].state = "playing"
  /\ currentPlayer(ROOMS[code]) = sock

\* Date.now() is past the room's timerEndTs
isLate(code) == Exists(code) /\ ROOMS[code].timerEndTs # NullTs /\ now > ROOMS[code].timerEndTs

\* the validator's verdict on answers for the letter of the room, if it has one
verdict(code, answers) ==
  /\ Exists(code)
  /\ ROOMS[code].currentLetter # NullLetter
  /\ okTable[answers, ROOMS[code].currentLetter]

submitEvent(sock, code, answers) ==
  [Event("submitAnswers", sock, code) EXCEPT
     !.valid = verdict(code, answers), !.late = isLate(code)]

\* the handler of "submitAnswers"; letter is what randomLetter returns in the
\* startTurn that nextTurn calls
onSubmitAnswers(sock, code, answers, letter) ==
  IF ~Exists(code) \/ ROOMS[code].state # "playing" THEN
    Rejected(<<>>)
  ELSE IF currentPlayerIdx(ROOMS[code]) = 0 THEN
    \* cp is undefined: cp.id throws a TypeError nothing catches
    [Rejected(<<>>) EXCEPT !.threw = TRUE]
  ELSE IF ~mayAnswer(sock, code) THEN
    Rejected(<<>>)
  ELSE IF ~allValid(answers, ROOMS[code].currentLetter) THEN
    Rejected(<< Emit(sock, "errorMsg",
       <<"Invalid entries! Use real-looking words (letters only, vowels, no junk).">>) >>)
  ELSE
    LET room == ROOMS[code]
        i == currentPlayerIdx(room)
        scored == [room EXCEPT !.players[i].score = @ + 1]
        nt == nextTurn(scored, code, letter, now)
    IN Result([ROOMS EXCEPT ![code] = nt.room],
              << Emit(code, "toast", <<room.players[i].name, " scored +1">>) >>
                 \o nt.out \o << Emit(code, "roomUpdate", <<>>) >>, TRUE)

\* the submission gets to line 189
scores(sock, code, answers) ==
  /\ Exists(code)
  /\ ROOMS[code].state = "playing"
  /\ currentPlayerIdx(ROOMS[code]) # 0
  /\ mayAnswer(sock, code)
  /\ allValid(answers, ROOMS[code].currentLetter)

submitAnswers(sock, code, answers) ==
  /\ ~crashed /\ sock \in connected
  /\ IF scores(sock, code, answers)
       THEN /\ withinCap(advanced(ROOMS[code]))
            /\ nTurns' = nTurns + starts(advanced(ROOMS[code]))
            /\ \E letter \in drawsOf(advanced(ROOMS[code])) :
                 Apply(submitEvent(sock, code, answers),
                       onSubmitAnswers(sock, code, answers, letter))
       ELSE /\ UNCHANGED nTurns
            /\ Apply(submitEvent(sock, code, answers),
                     onSubmitAnswers(sock, code, answers, NullLetter))
  /\ UNCHANGED <<connected, orphanTimers, nCreated>>

\* ------------------------------------------------------------- disconnect
inRoom(room, sock) == findIndex(room.players, sock) # 0

\* the room after lines 203-204, before the emptiness test
without(room, sock) ==
  [room EXCEPT !.players = splice(room.players, findIndex(room.players, sock)),
               !.order = filterOut(room.order, sock)]

\* line 211 left out
rehostNever(room, sock) == room

\* line 211
rehost(room, sock) ==
  IF room.hostId = sock THEN [room EXCEPT !.hostId = room.players[1].id] ELSE room

\* lines 213-216: the leaver held the turn of a playing room
skips(room, sock) == room.state = "playing" /\ currentPlayer(room) = sock

\* One iteration of the loop body for a room the socket is in and that is not
\* emptied: the room and the emits after it.
leave(room, code, sock, letter, t) ==
  LET r == rehost(without(room, sock), sock) IN
  IF skips(room, sock)
    THEN LET nt == nextTurn(r, code, letter, t) IN
         [room |-> nt.room,
          out |-> << Emit(code, "toast", <<"Player left ", "skipping turn.">>) >>
                    \o nt.out \o << Emit(code, "roomUpdate", <<>>) >>]
    ELSE [room |-> r, out |-> << Emit(code, "roomUpdate", <<>>) >>]

emptied(room, sock) == inRoom(room, sock) /\ Len(room.players) = 1

\* the room nextTurn would start a turn on, when the leaver held the turn
afterLeave(room, sock) == advanced(rehost(without(room, sock), sock))

RECURSIVE seqOf(_)
seqOf(S) == IF S = {} THEN <<>>
            ELSE LET x == CHOOSE x \in S : TRUE IN <<x>> \o seqOf(S \ {x})

RECURSIVE flatten(_, _)
flatten(codes, outs) ==
  IF codes = <<>> THEN <<>> ELSE outs[Head(codes)] \o flatten(Tail(codes), outs)

RECURSIVE bagSum(_, _)
bagSum(S, f) == IF S = {} THEN EmptyBag
                ELSE LET x == CHOOSE x \in S : TRUE IN f[x] (+) bagSum(S \ {x}, f)

\* the rooms the loop of line 199 finds sock in, and those of them it deletes
roomsOf(sock) == {c \in DOMAIN ROOMS : inRoom(ROOMS[c], sock)}

deleted(sock) == {c \in roomsOf(sock) : emptied(ROOMS[c], sock)}

\* the handler of "disconnect"; pick[c] is what randomLetter returns in the
\* startTurn run for room c
onDisconnect(sock, pick) ==
  LET stay == roomsOf(sock) \ deleted(sock)
      res == [c \in stay |-> leave(ROOMS[c], c, sock, pick[c], now)]
  IN Result([c \in DOMAIN ROOMS \ deleted(sock) |->
               IF c \in stay THEN res[c].room ELSE ROOMS[c]],
            flatten(seqOf(stay), [c \in stay |-> res[c].out]),
            roomsOf(sock) # {})

disconnect(sock) ==
  /\ ~crashed /\ sock \in connected
  /\ connected' = connected \ {sock}
  /\ LET stay == roomsOf(sock) \ deleted(sock)
         turn == {c \in stay : skips(ROOMS[c], sock)}
         begun == {c \in turn : ~gameOver(afterLeave(ROOMS[c], sock))}
     IN /\ nTurns + Cardinality(begun) <= MaxTurns
        /\ nTurns' = nTurns + Cardinality(begun)
        /\ \E pick \in [stay -> LetterSet \cup {NullLetter}] :
             /\ \A c \in stay :
                  pick[c] \in IF c \in turn THEN drawsOf(afterLeave(ROOMS[c], sock))
                              ELSE {NullLetter}
             /\ LET r == onDisconnect(sock, pick) IN
                /\ ROOMS' = r.rooms
                /\ lastEvent' = [Took(Event("disconnect", sock, Undefined), r) EXCEPT
                                   !.host = \E c \in stay : ROOMS[c].hostId = sock]
  /\ orphanTimers' = orphanTimers (+)
       bagSum(deleted(sock), [c \in deleted(sock) |-> orphanOf(c, ROOMS[c])])
  /\ UNCHANGED <<nCreated, crashed>>

\* ------------------------------------------------------- timeout callback
\* the guard of line 250 without the serial test
staleTimeoutRoomOnly(rooms, code, serial) == code \notin DOMAIN rooms

\* the guard of line 250 taken to return always
staleTimeoutAlways(rooms, code, serial) == TRUE

\* line 250, on the registry rooms
staleTimeout(rooms, code, serial) ==
  code \notin DOMAIN rooms \/ rooms[code].turnSerial # serial

\* The body of the arrow function of lines 248-253, run for (code, serial) on
\* the registry rooms; letter is what randomLetter returns in startTurn.
timeoutCallback(rooms, code, serial, letter) ==
  IF staleTimeout(rooms, code, serial) THEN
    Result(rooms, <<>>, FALSE)
  ELSE
    LET nt == nextTurn(rooms[code], code, letter, now) IN
    Result([rooms EXCEPT ![code] = nt.room],
           << Emit(code, "toast", <<"Time's up!">>) >> \o nt.out, TRUE)

\* the callback of a timeout that has just fired runs on the registry rooms
runTimeout(rooms, code, serial) ==
  LET ev == [Event("timeout", Undefined, code) EXCEPT !.serial = serial] IN
  IF staleTimeout(rooms, code, serial) THEN
    /\ UNCHANGED nTurns
    /\ LET r == timeoutCallback(rooms, code, serial, NullLetter) IN
       /\ ROOMS' = r.rooms
       /\ lastEvent' = [Took(ev, r) EXCEPT !.stale = TRUE]
  ELSE
    /\ withinCap(advanced(rooms[code]))
    /\ nTurns' = nTurns + starts(advanced(rooms[code]))
    /\ \E letter \in drawsOf(advanced(rooms[code])) :
         LET r == timeoutCallback(rooms, code, serial, letter) IN
         /\ ROOMS' = r.rooms
         /\ lastEvent' = Took(ev, r)

\* the timeout a room in ROOMS holds in timerHandle fires
timeoutFires(code) ==
  /\ ~crashed
  /\ Exists(code)
  /\ ROOMS[code].timerHandle.active
  /\ now >= ROOMS[code].timerHandle.due
  /\ runTimeout([ROOMS EXCEPT ![code] = clearTimer(ROOMS[code])],
                code, ROOMS[code].timerHandle.serial)
  /\ UNCHANGED <<connected, orphanTimers, nCreated, crashed>>

\* a timeout scheduled for a room object that has left ROOMS fires
orphanFires(tm) ==
  /\ ~crashed
  /\ BagIn(tm, orphanTimers)
  /\ now >= tm.due
  /\ orphanTimers' = orphanTimers (-) SetToBag({tm})
  /\ runTimeout(ROOMS, tm.code, tm.serial)
  /\ UNCHANGED <<connected, nCreated, crashed>>

\* ------------------------------------------------------------------ clock
\* Time passes in jumps, to the instants at which a pending timeout is due
\* (500 ms after its turn's timerEndTs).  A due callback runs when the event
\* loop gets to it: socket events may be handled before it.
timePoints ==
  {ROOMS[c].timerHandle.due : c \in {d \in DOMAIN ROOMS : ROOMS[d].timerHandle.active}}
  \cup {tm.due : tm \in BagToSet(orphanTimers)}

\* a delay of a pending timeout after d ms: at 0 the timeout is due
left(due, d) == IF due > d THEN due - d ELSE 0

\* the room after d ms
later(room, d) ==
  [room EXCEPT
     !.timerEndTs = IF @ = NullTs THEN NullTs ELSE @ - d,
     !.timerHandle.due = left(@, d)]

tick(d) ==
  /\ ~crashed
  /\ d > now
  /\ ROOMS' = [c \in DOMAIN ROOMS |-> later(ROOMS[c], d)]
  /\ orphanTimers' = BagOfAll(LAMBDA tm : [tm EXCEPT !.due = left(@, d)], orphanTimers)
  /\ lastEvent' = Event("tick", Undefined, Undefined)
  /\ UNCHANGED <<connected, nCreated, nTurns, crashed>>

\* ------------------------------------------------------------------- Next
Next ==
  \/ \E sock \in AllSockets, code \in Codes, name \in Names : createRoom(sock, code, name)
  \/ \E sock \in AllSockets, code \in Codes, name \in Names : joinRoom(sock, code, name)
  \/ \E sock \in AllSockets, code \in Codes : startGame(sock, code)
  \/ \E sock \in AllSockets, code \in Codes, answers \in AnswerInputs :
       submitAnswers(sock, code, answers)
  \/ \E sock \in AllSockets : disconnect(sock)
  \/ \E code \in Codes : timeoutFires(code)
  \/ \E tm \in BagToSet(orphanTimers) : orphanFires(tm)
  \/ \E d \in timePoints : tick(d)

Spec == Init /\ [][Next]_vars

\* Time passes, and a pending timeout whose delay has passed is run by the
\* event loop: the actions of the clock and of the timeouts are not put off
\* for ever.
FairSpec ==
  /\ Spec
  /\ WF_vars(\E d \in timePoints : tick(d))
  /\ \A code \in Codes : WF_vars(timeoutFires(code))

\* The state after s1 createRoom, s2 joinRoom, s3 joinRoom: a room of three
\* connections in lobby.
InitThree ==
  /\ ROOMS = [c \in Codes |->
               [newRoom("s1", "Asha") EXCEPT
                  !.players = @ \o << [id |-> "s2", name |-> "Asha", score |-> 0],
                                      [id |-> "s3", name |-> "Asha", score |-> 0] >>,
                  !.order = @ \o << "s2", "s3" >>]]
  /\ connected = AllSockets
  /\ orphanTimers = EmptyBag
  /\ nCreated = 1
  /\ nTurns = 0
  /\ crashed = FALSE
  /\ lastEvent = [Event("joinRoom", "s3", "K1") EXCEPT !.accepted = TRUE]

SpecThree == InitThree /\ [][Next]_vars

\* ============================================================ properties
ids(players) == {players[i].id : i \in 1..Len(players)}

\* code names the same room object before and after the step
kept(code) ==
  /\ code \in DOMAIN ROOMS
  /\ code \in DOMAIN ROOMS'
  /\ ~(lastEvent'.type = "createRoom" /\ lastEvent'.code = code)

\* the connection whose turn it is: order[turnIndex mod order.length]
holdsTurn(room, sock) ==
  /\ room.state = "playing"
  /\ Len(room.order) > 0
  /\ room.order[(room.turnIndex % Len(room.order)) + 1] = sock

\* C1: in every reachable state of every room, state = playing implies
\* turnIndex < players.length * roundsPerPlayer.
C1_TurnIndexBelowBound ==
  \A c \in DOMAIN ROOMS :
    ROOMS[c].state = "playing" =>
      ROOMS[c].turnIndex < Len(ROOMS[c].players) * ROOMS[c].roundsPerPlayer

\* C2: a timeout callback with captured serial g that runs while the room is
\* absent from ROOMS, or while the room's turnSerial differs from g, changes no
\* room field, starts no turn and emits nothing.
C2_StaleTimeoutIsNoOp ==
  [][ (/\ lastEvent'.type = "timeout"
       /\ \/ lastEvent'.code \notin DOMAIN ROOMS
          \/ ROOMS[lastEvent'.code].turnSerial # lastEvent'.serial)
      => (ROOMS' = ROOMS /\ nTurns' = nTurns /\ lastEvent'.out = <<>>) ]_vars

\* C2 witness: a callback of an earlier room object has run against a room that
\* is in ROOMS under the same code with another turnSerial.
C2_Witness ==
  /\ lastEvent.type = "timeout"
  /\ lastEvent.stale
  /\ lastEvent.code \in DOMAIN ROOMS
  /\ ROOMS[lastEvent.code].turnSerial # lastEvent.serial

\* C3: within a game, the letter drawn for a new turn is not in usedLetters
\* unless usedLetters already holds the whole alphabet (so the first
\* Len(LETTERS) turns of a game have pairwise distinct letters), and the drawn
\* letter is added to usedLetters.
C3_FreshLetter ==
  [][ \A c \in Codes :
        (kept(c) /\ ROOMS'[c].turnSerial # ROOMS[c].turnSerial) =>
          LET before == IF lastEvent'.type = "startGame" THEN {}
                        ELSE ROOMS[c].usedLetters
          IN /\ ROOMS'[c].currentLetter \in LetterSet
             /\ before # LetterSet => ROOMS'[c].currentLetter \notin before
             /\ ROOMS'[c].usedLetters = before \cup {ROOMS'[c].currentLetter} ]_vars

\* C3 witness: the second turn of a game has drawn the letter the first left.
C3_Witness ==
  \E c \in DOMAIN ROOMS :
    /\ ROOMS[c].state = "playing"
    /\ ROOMS[c].turnIndex = 1
    /\ Cardinality(ROOMS[c].usedLetters) = 2
    /\ lastEvent.type \in {"submitAnswers", "timeout", "disconnect"}
    /\ lastEvent.accepted

\* C4: a submitAnswers that does not come from the connection whose id is
\* order[turnIndex mod order.length] of a playing room is ignored: whatever the
\* answers, the handler leaves every room as it was and emits nothing.
C4_OnlyCurrentPlayerSubmits ==
  \A code \in Codes, sock \in connected, answers \in AnswerInputs :
    ~(Exists(code) /\ holdsTurn(ROOMS[code], sock)) =>
      \A letter \in LetterSet :
        LET r == onSubmitAnswers(sock, code, answers, letter) IN
        r.rooms = ROOMS /\ r.out = <<>> /\ ~r.done

\* C4 witness: a connection that does not hold the turn of a playing room is
\* there to submit answers that are valid for the room's letter.
C4_Witness ==
  \E code \in DOMAIN ROOMS, sock \in connected, answers \in AnswerInputs :
    /\ ROOMS[code].state = "playing"
    /\ Len(ROOMS[code].order) > 0
    /\ inRoom(ROOMS[code], sock)
    /\ ~holdsTurn(ROOMS[code], sock)
    /\ verdict(code, answers)
    /\ ~crashed

C6_EmptyRoomDestroyed ==
  \A c \in DOMAIN ROOMS : ids(ROOMS[c].players) \cap connected # {}

\* C7: in every reachable state of every room, order.length = players.length
\* and order lists the ids of players in join order.
C7_OrderMatchesPlayers ==
  \A c \in DOMAIN ROOMS :
    /\ Len(ROOMS[c].order) = Len(ROOMS[c].players)
    /\ \A i \in 1..Len(ROOMS[c].players) : ROOMS[c].order[i] = ROOMS[c].players[i].id

\* C8: a player's score changes only in a step where that player holds the
\* turn and submits five valid answers, and then by exactly +1 with every other
\* score kept; a timeout, a disconnect or any other step changes no score (a
\* disconnect only removes one entry, a join only appends an entry with score 0).
C8_ScoreOnlyByValidSubmission ==
  [][ \A c \in Codes : kept(c) =>
        LET P == ROOMS[c].players
            Q == ROOMS'[c].players
            e == lastEvent'
            scoring == /\ e.type = "submitAnswers" /\ e.code = c /\ e.valid
                       /\ holdsTurn(ROOMS[c], e.sock)
        IN IF e.type = "disconnect"
             THEN Q = P \/ \E i \in 1..Len(P) : Q = splice(P, i)
             ELSE /\ Len(Q) >= Len(P)
                  /\ \A i \in 1..Len(P) : Q[i].id = P[i].id
                  /\ \A i \in (Len(P) + 1)..Len(Q) : Q[i].score = 0
                  /\ \A i \in 1..Len(P) :
                       Q[i].score # P[i].score =>
                         /\ scoring
                         /\ P[i].id = e.sock
                         /\ Q[i].score = P[i].score + 1
                         /\ \A j \in 1..Len(P) : j # i => Q[j].score = P[j].score
                  /\ scoring => \E i \in 1..Len(P) : Q[i].score = P[i].score + 1 ]_vars

\* C8 witness: a turn has been advanced by a timeout after a player had scored.
C8_Witness ==
  /\ lastEvent.type = "timeout"
  /\ lastEvent.accepted
  /\ \E i \in 1..Len(ROOMS[lastEvent.code].players) :
       ROOMS[lastEvent.code].players[i].score > 0

\* C9: while a room is playing turnIndex never decreases: every step that
\* changes it adds exactly 1, and it is set to 0 only by a startGame that takes
\* the room from lobby to playing.
C9_TurnIndexMonotone ==
  [][ \A c \in Codes : kept(c) =>
        /\ ROOMS[c].state = "playing" => ROOMS'[c].turnIndex >= ROOMS[c].turnIndex
        /\ ROOMS'[c].turnIndex # ROOMS[c].turnIndex =>
             \/ ROOMS'[c].turnIndex = ROOMS[c].turnIndex + 1
             \/ /\ ROOMS'[c].turnIndex = 0
                /\ lastEvent'.type = "startGame"
                /\ ROOMS[c].state = "lobby" /\ ROOMS'[c].state = "playing" ]_vars

\* C10: a submitAnswers of the player holding the turn that is processed after
\* Date.now() has passed timerEndTs advances the turn and leaves every score
\* as it was, whether or not the answers are valid.
C10_LateSubmissionSkipsTurn ==
  [][ \A c \in Codes :
        (/\ kept(c)
         /\ lastEvent'.type = "submitAnswers" /\ lastEvent'.code = c
         /\ holdsTurn(ROOMS[c], lastEvent'.sock)
         /\ now > ROOMS[c].timerEndTs)
        => /\ ROOMS'[c].turnIndex = ROOMS[c].turnIndex + 1
           /\ ROOMS'[c].players = ROOMS[c].players ]_vars

\* C11: when the player holding the turn submits answers of which at least one
\* fails validation, the handler leaves every room as it was (turnIndex,
\* turnSerial, timerEndTs, currentLetter, usedLetters, the pending timeout and
\* every score), its only emit is an errorMsg to the submitter, and a further
\* submission of the same player in the same turn is still taken: valid answers
\* would be accepted.
C11_InvalidSubmissionKeepsTurn ==
  \A code \in DOMAIN ROOMS, sock \in connected, answers \in AnswerInputs :
    (holdsTurn(ROOMS[code], sock) /\ ~verdict(code, answers)) =>
      \A letter \in drawsOf(advanced(ROOMS[code])) :
        LET r == onSubmitAnswers(sock, code, answers, letter) IN
        /\ r.rooms = ROOMS
        /\ ~r.done /\ ~r.threw
        /\ Len(r.out) = 1
        /\ r.out[1].to = sock /\ r.out[1].ev = "errorMsg"
        /\ mayAnswer(sock, code)
        /\ \A again \in AnswerInputs :
             verdict(code, again) => onSubmitAnswers(sock, code, again, letter).done

\* C11 witness: in the course of a game (a turn has been played) the player
\* holding the turn is there with answers that fail validation for the room's
\* letter, and with others that pass.
C11_Witness ==
  \E code \in DOMAIN ROOMS, sock \in connected, answers, again \in AnswerInputs :
    /\ ~crashed
    /\ holdsTurn(ROOMS[code], sock)
    /\ ROOMS[code].turnIndex > 0
    /\ ROOMS[code].timerHandle.active
    /\ ~verdict(code, answers)
    /\ verdict(code, again)

\* the handler returned early with one errorMsg, sent to sock, and no change
refused(r, sock) ==
  /\ r.rooms = ROOMS
  /\ ~r.done /\ ~r.threw
  /\ Len(r.out) = 1
  /\ r.out[1].to = sock /\ r.out[1].ev = "errorMsg"

\* C12: a joinRoom for a code that is not in ROOMS or for a room that is not in
\* lobby, and a startGame on a room by a connection that is not its host or on a
\* room with fewer than 2 players, change no room and emit one errorMsg, to the
\* calling connection; and the players list of a room that is playing or ended
\* never grows.
C12_RejectedJoinAndStart ==
  /\ [](\A code \in Codes, sock \in connected :
          /\ (~Exists(code) \/ ROOMS[code].state # "lobby") =>
               \A name \in Names : refused(onJoinRoom(sock, code, name), sock)
          /\ (Exists(code) /\ (ROOMS[code].hostId # sock \/ Len(ROOMS[code].players) < 2)) =>
               \A letter \in LetterSet : refused(onStartGame(sock, code, letter), sock))
  /\ [][ \A c \in Codes :
           (kept(c) /\ ROOMS[c].state \in {"playing", "ended"})
           => Len(ROOMS'[c].players) <= Len(ROOMS[c].players) ]_vars

\* C12 witness: a room is playing and a connection that is neither in it nor its
\* host is there to send joinRoom and startGame.
C12_Witness ==
  \E code \in DOMAIN ROOMS, sock \in connected :
    /\ ~crashed
    /\ ROOMS[code].state = "playing"
    /\ ~inRoom(ROOMS[code], sock)
    /\ ROOMS[code].hostId # sock

\* the scores of a players list, in order
scoresOf(players) == [i \in 1..Len(players) |-> players[i].score]

\* C13: a room's state only moves lobby -> playing -> ended: a startGame takes
\* effect only on a room in lobby, and a room that is ended stays ended with its
\* turnIndex, turnSerial, currentLetter, usedLetters and scores as they were
\* (players may still be removed, and the room with them).
C13_StateOnlyMovesForward ==
  [][ \A c \in Codes : kept(c) =>
        LET old == ROOMS[c]
            new == ROOMS'[c]
        IN /\ new.state # old.state =>
                \/ old.state = "lobby" /\ new.state = "playing"
                \/ old.state = "playing" /\ new.state = "ended"
           /\ (lastEvent'.type = "startGame" /\ lastEvent'.code = c) => old.state = "lobby"
           /\ old.state = "ended" =>
                /\ new.state = "ended"
                /\ new.turnIndex = old.turnIndex
                /\ new.turnSerial = old.turnSerial
                /\ new.currentLetter = old.currentLetter
                /\ new.usedLetters = old.usedLetters
                /\ \/ scoresOf(new.players) = scoresOf(old.players)
                   \/ lastEvent'.type = "disconnect" ]_vars

\* the step ends the turn of room c by an accepted submission or by the
\* disconnect of the player who held it
endsTurn(c) ==
  \/ lastEvent'.type = "submitAnswers" /\ lastEvent'.code = c /\ lastEvent'.accepted
  \/ lastEvent'.type = "disconnect" /\ skips(ROOMS[c], lastEvent'.sock)

\* C14: after a step that ends a turn by an accepted submission or by the
\* disconnect of the player holding it, the timeout callback of that turn (the
\* one clearTimeout was called on), were it run all the same, leaves turnIndex,
\* turnSerial, state and scores as they are; also when the step ended the game.
\* (Stated for rooms no connection has joined twice.)
C14_OldCallbackIsNoOp ==
  [][ \A c \in Codes :
        (/\ kept(c) /\ ROOMS[c].state = "playing" /\ ROOMS[c].timerHandle.active
         /\ Cardinality(ids(ROOMS[c].players)) = Len(ROOMS[c].players)
         /\ endsTurn(c))
        => \A letter \in LetterSet :
             LET new == ROOMS'[c]
                 r == timeoutCallback(ROOMS', c, ROOMS[c].timerHandle.serial, letter).rooms[c]
             IN /\ r.turnIndex = new.turnIndex
                /\ r.turnSerial = new.turnSerial
                /\ r.state = new.state
                /\ scoresOf(r.players) = scoresOf(new.players) ]_vars

C16_NoTimeoutForRemovedRoom ==
  [][ \A c \in Codes :
        (lastEvent'.type = "disconnect" /\ c \in DOMAIN ROOMS /\ c \notin DOMAIN ROOMS')
        => orphanTimers' = orphanTimers ]_vars

\* C17: in every reachable state a room in lobby or ended has currentLetter =
\* null; a room has a letter only while it is playing.
C17_LetterOnlyWhilePlaying ==
  \A c \in DOMAIN ROOMS :
    ROOMS[c].state \in {"lobby", "ended"} => ROOMS[c].currentLetter = NullLetter

\* C18: whenever a room is playing its order is not empty and
\* order[turnIndex mod order.length] is the id of an entry of players, so that
\* currentPlayer(room) is defined; and no submitAnswers has thrown on an
\* undefined current player.
C18_CurrentPlayerResolves ==
  /\ ~crashed
  /\ \A c \in DOMAIN ROOMS :
       ROOMS[c].state = "playing" =>
         /\ Len(ROOMS[c].order) > 0
         /\ currentPlayerIdx(ROOMS[c]) # 0

\* C19: within one turn (turnSerial keeps its value and the room stays playing)
\* the current player stays who it was; and the disconnect of a connection that
\* does not hold the turn of a playing room leaves the current player,
\* turnIndex, turnSerial, currentLetter and timerEndTs as they were.
\* (Stated for rooms no connection has joined twice.)
C19_CurrentPlayerKeptWithinTurn ==
  [][ \A c \in Codes :
        (/\ kept(c)
         /\ Cardinality(ids(ROOMS[c].players)) = Len(ROOMS[c].players)
         /\ ROOMS[c].state = "playing" /\ ROOMS'[c].state = "playing"
         /\ ROOMS'[c].turnSerial = ROOMS[c].turnSerial)
        => /\ currentPlayer(ROOMS'[c]) = currentPlayer(ROOMS[c])
           /\ (lastEvent'.type = "disconnect" /\ ~skips(ROOMS[c], lastEvent'.sock)) =>
                /\ ROOMS'[c].turnIndex = ROOMS[c].turnIndex
                /\ ROOMS'[c].currentLetter = ROOMS[c].currentLetter
                /\ ROOMS'[c].timerEndTs = ROOMS[c].timerEndTs ]_vars

\* turn s of the room under code c is running, and the cap on turns leaves room
\* for the one that follows it
running(c, s) ==
  /\ ~crashed
  /\ Exists(c)
  /\ ROOMS[c].state = "playing"
  /\ ROOMS[c].turnSerial = s
  /\ nTurns < MaxTurns

\* turn s of the room under code c is over: a later turn has started, the game
\* is ended, the room is gone or replaced, or the process is down
over(c, s) ==
  \/ crashed
  \/ ~Exists(c)
  \/ ROOMS[c].state # "playing"
  \/ ROOMS[c].turnSerial > s

\* C20: every turn ends.  If time passes and a pending timeout that is due is
\* run, then from a state where a room is playing with turnSerial = s a state
\* is reached where its turnSerial is greater than s, or it is ended, or it is
\* no longer in ROOMS.  And a game is over after finitely many turns: unless a
\* startGame is issued, the step that ends a turn adds 1 to turnIndex and adds
\* no player, and it starts a turn only if turnIndex is below
\* players.length * roundsPerPlayer.
C20_EveryTurnEnds ==
  /\ \A c \in Codes : \A s \in 1..MaxTurns : running(c, s) ~> over(c, s)
  /\ [][ \A c \in Codes :
           (/\ kept(c) /\ ROOMS[c].state = "playing"
            /\ ROOMS'[c].turnSerial # ROOMS[c].turnSerial
            /\ lastEvent'.type # "startGame")
           => /\ ROOMS'[c].turnSerial = ROOMS[c].turnSerial + 1
              /\ ROOMS'[c].turnIndex = ROOMS[c].turnIndex + 1
              /\ Len(ROOMS'[c].players) <= Len(ROOMS[c].players)
              /\ ROOMS'[c].turnIndex < Len(ROOMS'[c].players) * ROOMS'[c].roundsPerPlayer ]_vars

\* C20 witness: nobody answered, and the timeout of a turn has started the
\* turn after it.
C20_Witness ==
  /\ lastEvent.type = "timeout"
  /\ lastEvent.accepted
  /\ ROOMS[lastEvent.code].state = "playing"
  /\ ROOMS[lastEvent.code].turnSerial = lastEvent.serial + 1
  /\ \A i \in 1..Len(ROOMS[lastEvent.code].players) :
       ROOMS[lastEvent.code].players[i].score = 0

====
